---------------------------- MODULE Spec2Model ----------------------------
(***************************************************************************)
(* NumeriCal: the Pratt parser (package parser) and the tree-walking       *)
(* evaluator (package evaluator) of the numeric expression language.       *)
(*                                                                         *)
(* A parser result is a record [node, err, pos, panic]: the node and the   *)
(* error a Go function returns, the cursor p.position it leaves behind and *)
(* whether the call ended in a runtime panic (index out of range).         *)
(* p.token always equals p.tokens[p.position], so only the cursor is kept. *)
(* Positions are 0-based as in the source; sequences are 1-based.          *)
(***************************************************************************)
EXTENDS Integers, Sequences, FiniteSets, TLC

VARIABLES tokens, parsed, Variables, Functions, result, calls, phase

vars == <<tokens, parsed, Variables, Functions, result, calls, phase>>

(* ------------------------------ lexer/token ---------------------------- *)

EOF == "EOF"
INT == "INT"
STRING_ == "STRING"
FLOAT == "FLOAT"
IDENTIFIER == "IDENTIFIER"
EQ == "EQ"
EE == "EE"
NE == "NE"
LT == "LT"
LTE == "LTE"
GT == "GT"
GTE == "GTE"
ADD == "ADD"
SUB == "SUB"
DIV == "DIV"
MUL == "MUL"
POW == "POW"
MOD == "MOD"
NOT == "NOT"
LPAREN == "LPAREN"
RPAREN == "RPAREN"
LSQUARE == "LSQUARE"
RSQUARE == "RSQUARE"
SEMICOLON == "SEMICOLON"
COMMA == "COMMA"
ARROW == "ARROW"
TILDE == "TILDE"
IN_ == "IN"
DEFINE_ == "DEFINE"

Token(type, literal) == [Type |-> type, Literal |-> literal]

(* the value of the error a function returns; NoErr is Go's nil error *)
NoErr == "nil"
SyntaxError == "SyntaxError"
StrconvError == "strconv"

(* ------------------------------- AST nodes ----------------------------- *)

ErrorNode == [node |-> "ERROR_NODE"]
ProgramNode(nodes) == [node |-> "PROGRAM_NODE", Nodes |-> nodes]
IdentifierNode(id) == [node |-> "IDENTIFIER_NODE", Identifier |-> id]
IntNode(v) == [node |-> "INT_NODE", Value |-> v]
FloatNode(v) == [node |-> "FLOAT_NODE", Value |-> v]
StringNode(v) == [node |-> "STRING_NODE", Value |-> v]
UnitNode(v, unit) == [node |-> "UNIT_NODE", Value |-> v, Unit |-> unit]
BinOpNode(l, op, r) == [node |-> "BIN_OP_NODE", Left |-> l, Operation |-> op, Right |-> r]
UnaryOpNode(op, r) == [node |-> "UNARY_OP_NODE", Operation |-> op, Right |-> r]
FunctionCallNode(id, params) == [node |-> "FUNCTION_CALL_NODE", Identifier |-> id, Parameters |-> params]
ArrayNode(nodes) == [node |-> "ARRAY_NODE", Nodes |-> nodes]
AssignNode(id, e) == [node |-> "ASSIGN_NODE", Identifier |-> id, Expression |-> e]
FunctionDefenitionNode(id, params, body) ==
    [node |-> "FUNCTION_DEFENITION_NODE", Identifier |-> id, Parameters |-> params, Consequence |-> body]

(* ----------------------- characters of the literals -------------------- *)

(* Strings are atomic values: the bytes of every literal the model uses. *)
Chars(s) ==
    CASE s = "" -> <<>>
      [] s = "0" -> <<"0">>
      [] s = "1" -> <<"1">>
      [] s = "2" -> <<"2">>
      [] s = "3" -> <<"3">>
      [] s = "4" -> <<"4">>
      [] s = "5" -> <<"5">>
      [] s = "7" -> <<"7">>
      [] s = "8" -> <<"8">>
      [] s = "9" -> <<"9">>
      [] s = "12" -> <<"1", "2">>
      [] s = "2.5" -> <<"2", ".", "5">>
      [] s = "0.5" -> <<"0", ".", "5">>
      [] s = "a" -> <<"a">>
      [] s = "b" -> <<"b">>
      [] s = "c" -> <<"c">>
      [] s = "f" -> <<"f">>
      [] s = "g" -> <<"g">>
      [] s = "q" -> <<"q">>
      [] s = "x" -> <<"x">>
      [] s = "y" -> <<"y">>
      [] s = "xs" -> <<"x", "s">>
      [] s = "xy" -> <<"x", "y">>
      [] s = "yx" -> <<"y", "x">>
      [] s = "add" -> <<"a", "d", "d">>
      [] s = "setx" -> <<"s", "e", "t", "x">>
      [] s = "pi" -> <<"p", "i">>
      [] s = "H" -> <<"H">>
      [] s = "Sn" -> <<"S", "n">>
      [] s = "Tin" -> <<"T", "i", "n">>
      [] s = "tin" -> <<"t", "i", "n">>
      [] s = "Hydrogen" -> <<"H", "y", "d", "r", "o", "g", "e", "n">>
      [] s = "meter" -> <<"m", "e", "t", "e", "r">>
      [] s = "day" -> <<"d", "a", "y">>
      [] s = "week" -> <<"w", "e", "e", "k">>
      [] s = "foo" -> <<"f", "o", "o">>

DigitVal(c) ==
    CASE c = "0" -> 0 [] c = "1" -> 1 [] c = "2" -> 2 [] c = "3" -> 3 [] c = "4" -> 4
      [] c = "5" -> 5 [] c = "6" -> 6 [] c = "7" -> 7 [] c = "8" -> 8 [] c = "9" -> 9
      [] OTHER -> -1

RECURSIVE DecimalOf(_)
(* the number a run of decimal digits denotes *)
DecimalOf(cs) ==
    IF cs = <<>> THEN 0
    ELSE 10 * DecimalOf(SubSeq(cs, 1, Len(cs) - 1)) + DigitVal(cs[Len(cs)])

(* strconv.Atoi: [value, err] *)
Atoi(literal) ==
    LET cs == Chars(literal) IN
    IF cs # <<>> /\ \A i \in 1..Len(cs) : DigitVal(cs[i]) >= 0
    THEN [value |-> DecimalOf(cs), err |-> NoErr]
    ELSE [value |-> 0, err |-> StrconvError]

(* ------------------------- rational magnitudes ------------------------- *)

(* A float64 is kept as an exact fraction [n, d] in lowest terms, d > 0. *)
Abs(i) == IF i < 0 THEN -i ELSE i

RECURSIVE Gcd(_, _)
Gcd(a, b) == IF b = 0 THEN a ELSE Gcd(b, a % b)

Rat(n, d) ==
    LET s == IF d < 0 THEN -1 ELSE 1
        g == Gcd(Abs(n), Abs(d))
    IN  [n |-> (s * n) \div g, d |-> (s * d) \div g]

RatInt(i) == [n |-> i, d |-> 1]

RECURSIVE Pow10(_)
Pow10(k) == IF k = 0 THEN 1 ELSE 10 * Pow10(k - 1)

(* strconv.ParseFloat on "<digits>.<digits>" or "<digits>": [value, err] *)
ParseFloat(literal) ==
    LET cs == Chars(literal)
        dots == {i \in 1..Len(cs) : cs[i] = "."}
        dot == IF dots = {} THEN Len(cs) + 1 ELSE CHOOSE i \in dots : TRUE
        whole == SubSeq(cs, 1, dot - 1)
        frac == SubSeq(cs, dot + 1, Len(cs))
        digits == whole \o frac
    IN  IF Cardinality(dots) <= 1 /\ digits # <<>>
           /\ \A i \in 1..Len(digits) : DigitVal(digits[i]) >= 0
        THEN [value |-> Rat(DecimalOf(digits), Pow10(Len(frac))), err |-> NoErr]
        ELSE [value |-> RatInt(0), err |-> StrconvError]

(* The value of a call is named once, as the local variable of the source  *)
(* that holds it: The({ e(x) : x \in {call} }) is e of that value.          *)
The(S) == CHOOSE x \in S : TRUE

(* --------------------------------- parser ------------------------------ *)

POk(node, pos) == [node |-> node, err |-> NoErr, pos |-> pos, panic |-> FALSE]
PErr(err, pos) == [node |-> ErrorNode, err |-> err, pos |-> pos, panic |-> FALSE]
PPanic(pos) == [node |-> ErrorNode, err |-> NoErr, pos |-> pos, panic |-> TRUE]
PBad(r) == r.panic \/ r.err # NoErr
(* `return &ErrorNode{}, err` on a failed sub-parse; a panic unwinds as it is *)
PFail(r) == IF r.panic THEN r ELSE PErr(r.err, r.pos)
(* `return &ErrorNode{}, nil` on a failed sub-parse: the error is dropped *)
PSwallow(r) == IF r.panic THEN r ELSE POk(ErrorNode, r.pos)

(* p.advance() moves the cursor, then indexes p.tokens with it *)
OutOfRange(toks, pos) == pos >= Len(toks)

TypeAt(toks, pos) == toks[pos + 1].Type
LiteralAt(toks, pos) == toks[pos + 1].Literal

peekToken(toks, pos) ==
    IF pos + 1 >= Len(toks) THEN Token(EOF, "") ELSE toks[pos + 2]

preference(tokenType) ==
    CASE tokenType \in {IN_, ARROW} -> 5
      [] tokenType \in {EE, NE, GT, GTE, LT, LTE} -> 10
      [] tokenType = MOD -> 15
      [] tokenType \in {ADD, SUB} -> 20
      [] tokenType \in {MUL, DIV} -> 30
      [] tokenType = POW -> 40
      [] tokenType = LPAREN -> 0
      [] OTHER -> -1

InfixOperators == {EE, NE, LT, GT, LTE, GTE, ADD, SUB, MUL, DIV, MOD, POW, IN_, ARROW}

RECURSIVE parseExpr(_, _, _)
RECURSIVE parseExprLoop(_, _, _, _)
RECURSIVE parsePrefix(_, _)
RECURSIVE parseInfix(_, _, _, _)
RECURSIVE parseParameters(_, _, _)
RECURSIVE parseParametersLoop(_, _, _, _)
RECURSIVE parseExpression(_, _)
RECURSIVE parseStatements(_, _, _)

(* the numeric-literal and parenthesis tail: an adjacent identifier is a unit *)
unitSuffix(toks, node, pos) ==
    IF TypeAt(toks, pos) = IDENTIFIER
    THEN IF OutOfRange(toks, pos + 1) THEN PPanic(pos + 1)
         ELSE POk(UnitNode(node, LiteralAt(toks, pos)), pos + 1)
    ELSE POk(node, pos)

parseUnary(toks, pos, op) ==
    IF OutOfRange(toks, pos + 1) THEN PPanic(pos + 1)
    ELSE The({ IF PBad(e) THEN PFail(e) ELSE POk(UnaryOpNode(op, e.node), e.pos) :
               e \in {parsePrefix(toks, pos + 1)} })

parsePrefix(toks, pos) ==
    LET t == TypeAt(toks, pos) IN
    CASE t = TILDE -> parseUnary(toks, pos, TILDE)
      [] t = NOT -> parseUnary(toks, pos, NOT)
      [] t = SUB -> parseUnary(toks, pos, SUB)
      [] t = LPAREN ->
            IF OutOfRange(toks, pos + 1) THEN PPanic(pos + 1)
            ELSE The({ IF PBad(e) THEN PFail(e)
                       ELSE IF OutOfRange(toks, e.pos + 1) THEN PPanic(e.pos + 1)
                       ELSE unitSuffix(toks, e.node, e.pos + 1) :
                       e \in {parseExpr(toks, pos + 1, preference(LPAREN))} })
      [] t = LSQUARE ->
            The({ IF PBad(ps) THEN PFail(ps)
                  ELSE IF OutOfRange(toks, ps.pos + 1) THEN PPanic(ps.pos + 1)
                  ELSE POk(ArrayNode(ps.node), ps.pos + 1) :
                  ps \in {parseParameters(toks, pos, RSQUARE)} })
      [] t = IDENTIFIER ->
            LET identifier == LiteralAt(toks, pos) IN
            IF OutOfRange(toks, pos + 1) THEN PPanic(pos + 1)
            ELSE IF TypeAt(toks, pos + 1) = LPAREN
            THEN The({ IF PBad(ps) THEN PSwallow(ps)
                       ELSE IF OutOfRange(toks, ps.pos + 1) THEN PPanic(ps.pos + 1)
                       ELSE POk(FunctionCallNode(identifier, ProgramNode(ps.node)), ps.pos + 1) :
                       ps \in {parseParameters(toks, pos + 1, RPAREN)} })
            ELSE unitSuffix(toks, IdentifierNode(identifier), pos + 1)
      [] t = INT ->
            The({ IF v.err # NoErr THEN PErr(v.err, pos)
                  ELSE IF OutOfRange(toks, pos + 1) THEN PPanic(pos + 1)
                  ELSE unitSuffix(toks, IntNode(v.value), pos + 1) :
                  v \in {Atoi(LiteralAt(toks, pos))} })
      [] t = FLOAT ->
            The({ IF v.err # NoErr THEN PErr(v.err, pos)
                  ELSE IF OutOfRange(toks, pos + 1) THEN PPanic(pos + 1)
                  ELSE unitSuffix(toks, FloatNode(v.value), pos + 1) :
                  v \in {ParseFloat(LiteralAt(toks, pos))} })
      [] t = STRING_ ->
            IF OutOfRange(toks, pos + 1) THEN PPanic(pos + 1)
            ELSE POk(StringNode(LiteralAt(toks, pos)), pos + 1)
      [] OTHER -> PErr(SyntaxError, pos)

(* parseInfix parsing its right operand at the operator's own binding power *)
parseInfixRightAssociative(toks, left, operation, pos) ==
    IF TypeAt(toks, pos) \notin InfixOperators THEN PErr(SyntaxError, pos)
    ELSE IF OutOfRange(toks, pos + 1) THEN PPanic(pos + 1)
    ELSE The({ IF PBad(right) THEN PFail(right)
               ELSE POk(BinOpNode(left, IF operation = ARROW THEN IN_ ELSE operation,
                                  right.node), right.pos) :
               right \in {parseExpr(toks, pos + 1, preference(operation))} })

parseInfix(toks, left, operation, pos) ==
    IF TypeAt(toks, pos) \notin InfixOperators THEN PErr(SyntaxError, pos)
    ELSE IF OutOfRange(toks, pos + 1) THEN PPanic(pos + 1)
    ELSE The({ IF PBad(right) THEN PFail(right)
               ELSE POk(BinOpNode(left, IF operation = ARROW THEN IN_ ELSE operation,
                                  right.node), right.pos) :
               right \in {parseExpr(toks, pos + 1, preference(operation) + 1)} })

(* the `for` of parseExpr, entered with the left operand parsed so far *)
parseExprLoop(toks, left, pos, rbp) ==
    IF /\ peekToken(toks, pos).Type # EOF
       /\ peekToken(toks, pos).Type # SEMICOLON
       /\ preference(TypeAt(toks, pos)) >= rbp
    THEN The({ IF PBad(l) THEN PFail(l) ELSE parseExprLoop(toks, l.node, l.pos, rbp) :
               l \in {parseInfix(toks, left, TypeAt(toks, pos), pos)} })
    ELSE POk(left, pos)

parseExpr(toks, pos, rbp) ==
    The({ IF PBad(left) THEN PFail(left) ELSE parseExprLoop(toks, left.node, left.pos, rbp) :
          left \in {parsePrefix(toks, pos)} })

(* the same failure with `make([]Node, 0)` in place of the node *)
PNoParams(r) == [r EXCEPT !.node = <<>>]

(* the `for p.token.Type != terminate` of parseParameters *)
parseParametersLoop(toks, pos, terminate, parameters) ==
    IF TypeAt(toks, pos) = terminate THEN POk(parameters, pos)
    ELSE IF TypeAt(toks, pos) \in {EOF, SEMICOLON} THEN PNoParams(PErr(SyntaxError, pos))
    ELSE IF TypeAt(toks, pos) # COMMA
    THEN The({ IF PBad(param) THEN PNoParams(PFail(param))
               ELSE parseParametersLoop(toks, param.pos, terminate,
                                        Append(parameters, param.node)) :
               param \in {parseExpr(toks, pos, 0)} })
    ELSE IF OutOfRange(toks, pos + 1) THEN PNoParams(PPanic(pos + 1))
    ELSE parseParametersLoop(toks, pos + 1, terminate, parameters)

(* the result's node is the list of parameter nodes *)
parseParameters(toks, pos, terminate) ==
    IF OutOfRange(toks, pos + 1) THEN PNoParams(PPanic(pos + 1))
    ELSE IF TypeAt(toks, pos + 1) = RPAREN THEN POk(<<>>, pos + 1)
    ELSE parseParametersLoop(toks, pos + 1, terminate, <<>>)

parseAssignment(toks, pos) ==
    LET identifier == LiteralAt(toks, pos) IN
    IF OutOfRange(toks, pos + 1) THEN PPanic(pos + 1)
    ELSE IF OutOfRange(toks, pos + 2) THEN PPanic(pos + 2)
    ELSE The({ IF PBad(expr) THEN PFail(expr)
               ELSE POk(AssignNode(identifier, expr.node), expr.pos) :
               expr \in {parseExpr(toks, pos + 2, 0)} })

(* The statement loop `for p.token.Type != lexer.EOF` that Parse and         *)
(* parseFunctionDefenition both run; the result's node is the list of nodes. *)
parseStatements(toks, pos, nodes) ==
    IF TypeAt(toks, pos) = EOF THEN POk(nodes, pos)
    ELSE LET semi == TypeAt(toks, pos) = SEMICOLON
             start == IF semi THEN pos + 1 ELSE pos
         IN  IF semi /\ OutOfRange(toks, start) THEN PPanic(start)
             ELSE The({ IF PBad(expr) THEN PFail(expr)
                        ELSE parseStatements(toks, expr.pos, Append(nodes, expr.node)) :
                        expr \in {parseExpression(toks, start)} })

(* parseConsequence taking one expression as the body *)
parseConsequenceOneStatement(toks, pos, identifer, params) ==
    IF TypeAt(toks, pos) # ARROW THEN PErr(SyntaxError, pos)
    ELSE IF OutOfRange(toks, pos + 1) THEN PPanic(pos + 1)
    ELSE The({ IF PBad(body) THEN PSwallow(body)
               ELSE POk(FunctionDefenitionNode(identifer, params, ProgramNode(<<body.node>>)),
                        body.pos) :
               body \in {parseExpression(toks, pos + 1)} })

(* parseFunctionDefenition from its `=>` check on; pos is at the token after *)
(* the optional parameter list                                              *)
parseConsequence(toks, pos, identifer, params) ==
    IF TypeAt(toks, pos) # ARROW THEN PErr(SyntaxError, pos)
    ELSE IF OutOfRange(toks, pos + 1) THEN PPanic(pos + 1)
    ELSE The({ IF PBad(body) THEN PSwallow(body)
               ELSE POk(FunctionDefenitionNode(identifer, params, ProgramNode(body.node)),
                        body.pos) :
               body \in {parseStatements(toks, pos + 1, <<>>)} })

parseFunctionDefenition(toks, pos) ==
    IF OutOfRange(toks, pos + 1) THEN PPanic(pos + 1)
    ELSE LET identifer == LiteralAt(toks, pos + 1) IN
         IF OutOfRange(toks, pos + 2) THEN PPanic(pos + 2)
         ELSE IF TypeAt(toks, pos + 2) = LPAREN
         THEN The({ IF PBad(ps) THEN PFail(ps)
                    ELSE IF OutOfRange(toks, ps.pos + 1) THEN PPanic(ps.pos + 1)
                    ELSE parseConsequence(toks, ps.pos + 1, identifer, ps.node) :
                    ps \in {parseParameters(toks, pos + 2, RPAREN)} })
         ELSE parseConsequence(toks, pos + 2, identifer, <<>>)

parseExpression(toks, pos) ==
    The({ IF PBad(expr) THEN PFail(expr) ELSE expr :
          expr \in { IF TypeAt(toks, pos) = IDENTIFIER /\ peekToken(toks, pos).Type = EQ
                     THEN parseAssignment(toks, pos)
                     ELSE IF TypeAt(toks, pos) = DEFINE_
                     THEN parseFunctionDefenition(toks, pos)
                     ELSE parseExpr(toks, pos, 0) } })

(* NewParser(tokens).Parse(): [node, err, pos, panic]; on an error the node *)
(* is the empty ProgramNode{}, whose Nodes is nil                          *)
Parse(toks) ==
    IF OutOfRange(toks, 0) THEN PPanic(0)
    ELSE The({ IF ast.panic THEN ast
               ELSE IF ast.err # NoErr THEN [ast EXCEPT !.node = ProgramNode(<<>>)]
               ELSE POk(ProgramNode(ast.node), ast.pos) :
               ast \in {parseStatements(toks, 0, <<>>)} })

(* -------------------------------- objects ------------------------------ *)

INT_OBJ == "INT_OBJ"
FLOAT_OBJ == "FLOAT_OBJ"
UNIT_OBJ == "UNIT_OBJ"
STRING_OBJ == "STRING_OBJ"
PROGRAM_OBJ == "PROGRAM_OBJ"

Integer(v) == [type |-> INT_OBJ, Value |-> v]
Float(v) == [type |-> FLOAT_OBJ, Value |-> v]
Unit(v, unit) == [type |-> UNIT_OBJ, Value |-> v, Unit |-> unit]
String(v) == [type |-> STRING_OBJ, Value |-> v]
Program(objects) == [type |-> PROGRAM_OBJ, Objects |-> objects]
Nil == [type |-> "NIL"]
Error == [type |-> "ERROR"]
(* Go's nil interface value: what a read of a missing map key yields *)
NilObject == [type |-> "<nil>"]

(* the Number interface: Integer, Float and Unit have Inspect() float64 *)
IsNumber(object) == object.type \in {INT_OBJ, FLOAT_OBJ, UNIT_OBJ}
Inspect(number) == IF number.type = INT_OBJ THEN RatInt(number.Value) ELSE number.Value

VarAccessError == "VarAccessError"
FunctionCallError == "FunctionCallError"
UnaryOperationError == "UnaryOperationError"
RoundingError == "RoundingError"
ConversionError == "ConversionError"
BinaryOperationError == "BinaryOperationError"
EvaluatorError == "EvaluatorError"
EvaluationError == "EvaluationError"

(* ------------------------------ float64 maths -------------------------- *)

RAdd(a, b) == Rat(a.n * b.d + b.n * a.d, a.d * b.d)
RSub(a, b) == Rat(a.n * b.d - b.n * a.d, a.d * b.d)
RMul(a, b) == Rat(a.n * b.n, a.d * b.d)
RDiv(a, b) == Rat(a.n * b.d, a.d * b.n)
RLess(a, b) == a.n * b.d < b.n * a.d
(* the integer part, towards zero *)
Trunc(a) == IF a.n >= 0 THEN a.n \div a.d ELSE -((-a.n) \div a.d)
(* math.Mod: the remainder keeps the sign of the dividend *)
RMod(a, b) == RSub(a, RMul(b, RatInt(Trunc(RDiv(a, b)))))

RECURSIVE RPowNat(_, _)
RPowNat(a, k) == IF k = 0 THEN RatInt(1) ELSE RMul(a, RPowNat(a, k - 1))
(* math.Pow for an integral exponent; other exponents are outside the model *)
RPow(a, b) == IF b.n >= 0 THEN RPowNat(a, b.n) ELSE RDiv(RatInt(1), RPowNat(a, -b.n))

RoundScale == 100000

RECURSIVE RoundDigits(_, _, _, _)
(* long division of rem/d, one decimal digit at a time, up to the scale *)
RoundDigits(rem, d, acc, scale) ==
    IF scale = 1 THEN (IF 2 * rem >= d THEN acc + 1 ELSE acc)
    ELSE RoundDigits((rem * 10) % d, d, acc * 10 + ((rem * 10) \div d), scale \div 10)

(* math.Round(float*100000) / 100000, halves away from zero *)
RoundTo5(a) ==
    LET m == Abs(a.n)
        r == RoundDigits(m % a.d, a.d, m \div a.d, RoundScale)
    IN  Rat(IF a.n < 0 THEN -r ELSE r, RoundScale)

(* math.Round then int() *)
RoundInt(a) ==
    LET m == Abs(a.n)
        r == IF 2 * (m % a.d) >= a.d THEN (m \div a.d) + 1 ELSE m \div a.d
    IN  IF a.n < 0 THEN -r ELSE r

formatFloat(float) ==
    IF float.d = 1 THEN Integer(float.n) ELSE Float(RoundTo5(float))

boolToInt(value) == IF value THEN 1 ELSE 0

binaryOperations(left, right, operation) ==
    CASE operation = ADD -> RAdd(left, right)
      [] operation = SUB -> RSub(left, right)
      [] operation = DIV -> RDiv(left, right)
      [] operation = MUL -> RMul(left, right)
      [] operation = POW -> RPow(left, right)
      [] operation = MOD -> RMod(left, right)
      [] operation = EE -> RatInt(boolToInt(left = right))
      [] operation = NE -> RatInt(boolToInt(left # right))
      [] operation = LT -> RatInt(boolToInt(RLess(left, right)))
      [] operation = LTE -> RatInt(boolToInt(~RLess(right, left)))
      [] operation = GT -> RatInt(boolToInt(RLess(right, left)))
      [] operation = GTE -> RatInt(boolToInt(~RLess(left, right)))
      [] OTHER -> RatInt(0)

(* ---------------------------- unit conversion -------------------------- *)

(* a value-and-error pair that is not yet wrapped by handleReturn *)
VOk(obj) == [obj |-> obj, err |-> NoErr, panic |-> FALSE]
VErr(obj, err) == [obj |-> obj, err |-> err, panic |-> FALSE]
VPanic == [obj |-> NilObject, err |-> NoErr, panic |-> TRUE]

(* DefineUnits: one week is WeekDays days *)
WeekDays == 7

(* units.Find: the names the registry knows, with the quantity each measures *)
UnitQuantity(name) ==
    CASE name = "meter" -> "length"
      [] name \in {"day", "week"} -> "time"
      [] OTHER -> "unknown"

unitsFind(name) == UnitQuantity(name) # "unknown"

(* how many days one of the unit is *)
DaysIn(name) == IF name = "week" THEN WeekDays ELSE 1

(* units.MustConvertFloat: panics when no conversion path joins the units *)
MustConvertFloat(u, from, to) ==
    IF UnitQuantity(from) # UnitQuantity(to) THEN VPanic
    ELSE IF from = to THEN VOk(u)
    ELSE VOk(RDiv(RMul(u, RatInt(DaysIn(from))), RatInt(DaysIn(to))))

convert(u, from, to) ==
    IF from = to THEN VOk(Unit(u, from))
    ELSE IF ~unitsFind(from) THEN VErr(Unit(RatInt(0), ""), ConversionError)
    ELSE IF ~unitsFind(to) THEN VErr(Unit(RatInt(0), ""), ConversionError)
    ELSE LET c == MustConvertFloat(u, from, to) IN
         IF c.panic THEN VPanic ELSE VOk(Unit(Inspect(formatFloat(c.obj)), to))

(* evalNumberInfix tagging the result of two unit operands with the left unit *)
evalNumberInfixLeftUnit(left, right, operation) ==
    LET bothUnits == left.type = UNIT_OBJ /\ right.type = UNIT_OBJ
        convertedLeft == convert(Inspect(left), left.Unit, right.Unit)
    IN  IF bothUnits /\ convertedLeft.panic THEN VPanic
        ELSE IF bothUnits /\ convertedLeft.err # NoErr THEN VErr(Error, convertedLeft.err)
        ELSE LET leftVal == IF bothUnits THEN Inspect(convertedLeft.obj) ELSE Inspect(left)
                 rightVal == Inspect(right)
                 value == formatFloat(binaryOperations(leftVal, rightVal, operation))
             IN  IF left.type = UNIT_OBJ THEN VOk(Unit(Inspect(value), left.Unit))
                 ELSE IF right.type = UNIT_OBJ THEN VOk(Unit(Inspect(value), right.Unit))
                 ELSE VOk(value)

evalNumberInfix(left, right, operation) ==
    LET bothUnits == left.type = UNIT_OBJ /\ right.type = UNIT_OBJ
        convertedLeft == convert(Inspect(left), left.Unit, right.Unit)
    IN  IF bothUnits /\ convertedLeft.panic THEN VPanic
        ELSE IF bothUnits /\ convertedLeft.err # NoErr THEN VErr(Error, convertedLeft.err)
        ELSE LET leftVal == IF bothUnits THEN Inspect(convertedLeft.obj) ELSE Inspect(left)
                 rightVal == Inspect(right)
                 value == formatFloat(binaryOperations(leftVal, rightVal, operation))
             IN  IF bothUnits THEN VOk(Unit(Inspect(value), right.Unit))
                 ELSE IF left.type = UNIT_OBJ THEN VOk(Unit(Inspect(value), left.Unit))
                 ELSE IF right.type = UNIT_OBJ THEN VOk(Unit(Inspect(value), right.Unit))
                 ELSE VOk(value)

evalStringInfix(left, right, operation) ==
    IF operation = ADD THEN VOk(String(left.Value \o right.Value))
    ELSE VErr(Error, BinaryOperationError)

evalUnarySub(node) ==
    CASE node.type = INT_OBJ -> VOk(Integer(-node.Value))
      [] node.type = FLOAT_OBJ -> VOk(Float(Rat(-node.Value.n, node.Value.d)))
      [] node = NilObject -> VPanic
      [] OTHER -> VErr(Error, UnaryOperationError)

evalUnaryRound(node) ==
    CASE node.type = INT_OBJ -> VOk(node)
      [] node.type = FLOAT_OBJ -> VOk(Integer(RoundInt(node.Value)))
      [] node = NilObject -> VPanic
      [] OTHER -> VErr(Error, RoundingError)

evalUnaryNot(node) ==
    IF node.type = INT_OBJ /\ node.Value = 0 THEN Integer(1)
    ELSE IF node.type = STRING_OBJ /\ node.Value = "" THEN Integer(1)
    ELSE Integer(0)

(* ------------------------------ environment --------------------------- *)

(* A Go map is a reference: the maps live in a store, st.maps, and a map    *)
(* value is its index there.  make(map...) adds an empty map to the store.  *)
(* The store also carries what belongs to the run and not to a Go value:    *)
(* iteration, the order in which a `range` over a map visits the keys, and  *)
(* calls, the record of the user-function invocations made so far.          *)
EmptyMap == << >>
MapPut(m, k, v) == [x \in (DOMAIN m) \cup {k} |-> IF x = k THEN v ELSE m[x]]
(* the nil map, the zero value of a map field; no key is ever in it *)
NilMap == 0
Store(maps, iteration, log) == [maps |-> maps, iteration |-> iteration, calls |-> log]
MapOf(st, ref) == IF ref = NilMap THEN EmptyMap ELSE st.maps[ref]
HasKey(st, ref, k) == k \in DOMAIN MapOf(st, ref)
make(st) == [ref |-> Len(st.maps) + 1, st |-> [st EXCEPT !.maps = Append(@, EmptyMap)]]
Assigned(st, ref, k, v) == [st EXCEPT !.maps[ref] = MapPut(@, k, v)]

(* Environment{Constants, Variables, Functions, PeriodicTable}: four maps *)
Environment(variables, functions, constants, periodicTable) ==
    [Variables |-> variables, Functions |-> functions, Constants |-> constants,
     PeriodicTable |-> periodicTable]

EOk(obj, st) == [obj |-> obj, err |-> NoErr, panic |-> FALSE, st |-> st]
EErr(err, st) == [obj |-> Error, err |-> err, panic |-> FALSE, st |-> st]
EPanic(st) == [obj |-> NilObject, err |-> NoErr, panic |-> TRUE, st |-> st]
EBad(r) == r.panic \/ r.err # NoErr
(* `return &Error{}, err` on a failed sub-evaluation; a panic unwinds as it is *)
EFail(r) == IF r.panic THEN r ELSE EErr(r.err, r.st)

handleReturn(v, st) ==
    IF v.panic THEN EPanic(st)
    ELSE IF v.err # NoErr THEN EErr(v.err, st)
    ELSE EOk(v.obj, st)

(* ----------------------- identifiers and similarity -------------------- *)

ToLower(c) ==
    CASE c = "H" -> "h" [] c = "S" -> "s" [] c = "T" -> "t" [] OTHER -> c

(* strings.EqualFold on the letters the model uses *)
EqualFold(s, t) ==
    LET a == Chars(s)
        b == Chars(t)
    IN  Len(a) = Len(b) /\ \A i \in 1..Len(a) : ToLower(a[i]) = ToLower(b[i])

(* periodicTable["elements"].([]interface{}) panics on the nil map *)
lookupElements(elementIdentifier, st, periodicTable) ==
    IF ~HasKey(st, periodicTable, "elements") THEN VPanic
    ELSE LET elements == MapOf(st, periodicTable).elements
             hits == {i \in 1..Len(elements) :
                        \/ elements[i].symbol = elementIdentifier
                        \/ EqualFold(elements[i].name, elementIdentifier)}
         IN  IF hits = {} THEN VErr(EmptyMap, EvaluationError)
             ELSE VOk(elements[CHOOSE i \in hits : \A j \in hits : i <= j])

Min2(a, b) == IF a < b THEN a ELSE b
Max2(a, b) == IF a > b THEN a ELSE b

RECURSIVE Levenshtein(_, _)
(* the edit distance with unit insert, delete and replace costs *)
Levenshtein(a, b) ==
    IF a = <<>> THEN Len(b)
    ELSE IF b = <<>> THEN Len(a)
    ELSE LET ta == Tail(a)
             tb == Tail(b)
         IN  IF Head(a) = Head(b) THEN Levenshtein(ta, tb)
             ELSE 1 + Min2(Levenshtein(ta, b), Min2(Levenshtein(a, tb), Levenshtein(ta, tb)))

RECURSIVE CommonPrefix(_, _)
CommonPrefix(a, b) ==
    IF a = <<>> \/ b = <<>> \/ Head(a) # Head(b) THEN 0
    ELSE 1 + CommonPrefix(Tail(a), Tail(b))

(* similarity as an exact fraction: 0.5 * (i / len(a)) + 0.5 * sequencer,    *)
(* where i / len(a) is Go's integer division and sequencer is strutil's     *)
(* 1 - distance / max(len(a), len(b))                                       *)
similarity(a, b) ==
    LET ca == Chars(a)
        cb == Chars(b)
        maxLen == Max2(Len(ca), Len(cb))
        consecutiveCertainty == CommonPrefix(ca, cb) \div Len(ca)
        sequencer == Rat(maxLen - Levenshtein(ca, cb), maxLen)
    IN  RAdd(RMul(RatInt(consecutiveCertainty), Rat(1, 2)), RMul(sequencer, Rat(1, 2)))

RECURSIVE maxSimilar(_, _, _, _, _)
(* the `for variable := range environment.Variables` of the fuzzy fallback, *)
(* visiting the keys in the order the iteration gives                       *)
maxSimilar(identifier, variables, iteration, maxIdentifier, maxSimilarity) ==
    IF iteration = <<>> THEN maxIdentifier
    ELSE LET variable == Head(iteration)
             sim == similarity(identifier, variable)
         IN  IF variable \in DOMAIN variables /\ RLess(maxSimilarity, sim)
             THEN maxSimilar(identifier, variables, Tail(iteration), variable, sim)
             ELSE maxSimilar(identifier, variables, Tail(iteration), maxIdentifier, maxSimilarity)

(* a read of a map: the zero value, a nil Object, for a missing key *)
MapGet(m, k) == IF k \in DOMAIN m THEN m[k] ELSE NilObject

evalIdentifier(n, environment, st) ==
    IF HasKey(st, environment.Constants, n.Identifier)
    THEN EOk(MapOf(st, environment.Constants)[n.Identifier], st)
    ELSE LET element == lookupElements(n.Identifier, st, environment.PeriodicTable)
             variables == MapOf(st, environment.Variables)
         IN  IF element.panic THEN EPanic(st)
             ELSE IF element.err = NoErr
             THEN EOk(formatFloat(element.obj.atomic_mass), st)
             ELSE IF n.Identifier \in DOMAIN variables
             THEN EOk(variables[n.Identifier], st)
             ELSE IF Cardinality(DOMAIN variables) < 1
             THEN EErr(VarAccessError, st)
             ELSE EOk(MapGet(variables,
                             maxSimilar(n.Identifier, variables, st.iteration, "", RatInt(0))),
                      st)

(* -------------------------------- evaluator ---------------------------- *)

BuiltinFunctions == {"frac", "print", "root", "lookup"}

(* frac, print, root and lookup: functions of the evaluated argument list *)
builtin(identifier, paramsProgram, environment) == VOk(Nil)

RECURSIVE Eval(_, _, _)
RECURSIVE evalProgram(_, _, _, _, _)
RECURSIVE bindParameters(_, _, _, _, _, _)

evalUnaryOp(node, environment, st) ==
    LET r == Eval(node.Right, environment, st) IN
    IF EBad(r) THEN EFail(r)
    ELSE CASE node.Operation = SUB -> handleReturn(evalUnarySub(r.obj), r.st)
           [] node.Operation = NOT -> EOk(evalUnaryNot(r.obj), r.st)
           [] node.Operation = TILDE -> handleReturn(evalUnaryRound(r.obj), r.st)
           [] OTHER -> EErr(UnaryOperationError, r.st)

(* evalBinaryOp after the `in` special case: evaluate right, dispatch on left *)
evalInfix(node, left, environment, st) ==
    LET r == Eval(node.Right, environment, st) IN
    IF EBad(r) THEN EFail(r)
    ELSE IF IsNumber(left) /\ IsNumber(r.obj)
    THEN handleReturn(evalNumberInfix(left, r.obj, node.Operation), r.st)
    ELSE IF left.type = STRING_OBJ /\ r.obj = NilObject THEN EPanic(r.st)
    ELSE IF left.type = STRING_OBJ /\ r.obj.type = STRING_OBJ
    THEN handleReturn(evalStringInfix(left, r.obj, node.Operation), r.st)
    ELSE IF left = NilObject \/ r.obj = NilObject THEN EPanic(r.st)
    ELSE EErr(BinaryOperationError, r.st)

evalBinaryOp(node, environment, st) ==
    LET l == Eval(node.Left, environment, st) IN
    IF EBad(l) THEN EFail(l)
    ELSE IF node.Operation = IN_ /\ node.Right.node = "IDENTIFIER_NODE"
    THEN LET toIdentifier == node.Right.Identifier IN
         IF l.obj.type = UNIT_OBJ
         THEN handleReturn(convert(Inspect(l.obj), l.obj.Unit, toIdentifier), l.st)
         ELSE IF IsNumber(l.obj)
         THEN handleReturn(convert(Inspect(l.obj), toIdentifier, toIdentifier), l.st)
         ELSE evalInfix(node, l.obj, environment, l.st)
    ELSE IF node.Operation = IN_
    THEN IF l.obj = NilObject THEN EPanic(l.st) ELSE EErr(ConversionError, l.st)
    ELSE evalInfix(node, l.obj, environment, l.st)

(* the `for i, node := range n.Parameters.Nodes` of a user-function call:   *)
(* each argument is evaluated in the caller's environment and stored in the *)
(* callee's variables under the i-th declared parameter name                *)
bindParameters(function, nodes, i, environment, env, st) ==
    IF i > Len(nodes) THEN EOk(Nil, st)
    ELSE IF i > Len(function.Parameters) \/ function.Parameters[i].node # "IDENTIFIER_NODE"
    THEN EPanic(st)
    ELSE LET r == Eval(nodes[i], environment, st) IN
         IF EBad(r) THEN EFail(r)
         ELSE bindParameters(function, nodes, i + 1, environment, env,
                             Assigned(r.st, env.Variables,
                                      function.Parameters[i].Identifier, r.obj))

(* the entry of the call record for one user-function invocation: the two   *)
(* environments, the caller's tables at the call and its variables when the *)
(* call is over, the callee's tables when its body starts and its variables *)
(* when the body ends                                                       *)
CallRecord(identifier, caller, callee, atCall, atBody, atEnd) ==
    [fn |-> identifier, caller |-> caller, callee |-> callee,
     callerVariables |-> MapOf(atCall, caller.Variables),
     callerFunctions |-> MapOf(atCall, caller.Functions),
     calleeVariables |-> MapOf(atBody, callee.Variables),
     calleeFunctions |-> MapOf(atBody, callee.Functions),
     calleeEndVariables |-> MapOf(atEnd, callee.Variables),
     returnVariables |-> MapOf(atEnd, caller.Variables)]

(* newEnvironment handing the callee the caller's Variables map *)
newEnvironmentSharingVariables(environment, st) ==
    LET functions == make(st)
    IN  [env |-> Environment(environment.Variables, functions.ref, NilMap, NilMap),
         st |-> functions.st]

(* Environment{Variables: make(...), Functions: make(...)}: two new maps,   *)
(* the other fields keep their zero value                                   *)
newEnvironment(environment, st) ==
    LET variables == make(st)
        functions == make(variables.st)
    IN  [env |-> Environment(variables.ref, functions.ref, NilMap, NilMap),
         st |-> functions.st]

evalFunctionCall(n, environment, st) ==
    IF n.Identifier \in BuiltinFunctions
    THEN LET params == Eval(n.Parameters, environment, st) IN
         IF EBad(params) THEN EFail(params)
         ELSE handleReturn(builtin(n.Identifier, params.obj, environment), params.st)
    ELSE IF HasKey(st, environment.Functions, n.Identifier)
    THEN LET function == MapOf(st, environment.Functions)[n.Identifier]
             new == newEnvironment(environment, st)
             env == new.env
             bound == bindParameters(function, n.Parameters.Nodes, 1, environment, env, new.st)
         IN  IF EBad(bound) THEN EFail(bound)
             ELSE LET r == Eval(function.Consequence, env, bound.st)
                      back == [r.st EXCEPT !.calls =
                                  Append(@, CallRecord(n.Identifier, environment, env,
                                                       st, bound.st, r.st))]
                  IN  IF r.panic THEN EPanic(back)
                      ELSE IF r.err # NoErr THEN EErr(r.err, back)
                      ELSE IF Len(r.obj.Objects) = 0 THEN EPanic(back)
                      ELSE EOk(r.obj.Objects[Len(r.obj.Objects)], back)
    ELSE EErr(FunctionCallError, st)

(* evalProgram going on with the next statement after one that failed *)
evalProgramSkippingFailure(nodes, i, environment, st, objects) ==
    IF i > Len(nodes) THEN EOk(Program(objects), st)
    ELSE LET r == Eval(nodes[i], environment, st) IN
         IF r.panic THEN EFail(r)
         ELSE IF EBad(r) THEN evalProgram(nodes, i + 1, environment, r.st, objects)
         ELSE evalProgram(nodes, i + 1, environment, r.st, Append(objects, r.obj))

(* the ProgramNode case: statements i.. of nodes, objects the results so far *)
evalProgram(nodes, i, environment, st, objects) ==
    IF i > Len(nodes) THEN EOk(Program(objects), st)
    ELSE LET r == Eval(nodes[i], environment, st) IN
         IF EBad(r) THEN EFail(r)
         ELSE evalProgram(nodes, i + 1, environment, r.st, Append(objects, r.obj))

Eval(node, environment, st) ==
    CASE node.node = "PROGRAM_NODE" -> evalProgram(node.Nodes, 1, environment, st, <<>>)
      [] node.node = "UNARY_OP_NODE" -> evalUnaryOp(node, environment, st)
      [] node.node = "BIN_OP_NODE" -> evalBinaryOp(node, environment, st)
      [] node.node = "UNIT_NODE" ->
            LET value == Eval(node.Value, environment, st) IN
            IF EBad(value) THEN EFail(value)
            ELSE IF value.obj = NilObject THEN EPanic(value.st)
            ELSE IF ~IsNumber(value.obj) THEN EErr(EvaluatorError, value.st)
            ELSE EOk(Unit(Inspect(value.obj), node.Unit), value.st)
      [] node.node = "ASSIGN_NODE" ->
            LET value == Eval(node.Expression, environment, st) IN
            IF EBad(value) THEN EFail(value)
            ELSE EOk(Nil, Assigned(value.st, environment.Variables,
                                   node.Identifier, value.obj))
      [] node.node = "FUNCTION_CALL_NODE" -> evalFunctionCall(node, environment, st)
      [] node.node = "FUNCTION_DEFENITION_NODE" ->
            EOk(Nil, Assigned(st, environment.Functions, node.Identifier, node))
      [] node.node = "IDENTIFIER_NODE" -> evalIdentifier(node, environment, st)
      [] node.node = "INT_NODE" -> EOk(Integer(node.Value), st)
      [] node.node = "FLOAT_NODE" -> EOk(Float(node.Value), st)
      [] node.node = "STRING_NODE" -> EOk(String(node.Value), st)
      [] OTHER -> [obj |-> Error, err |-> NoErr, panic |-> FALSE, st |-> st]

(* ------------------------- the driver's environment -------------------- *)

(* the constants the driver seeds the top-level environment with *)
Constants == [pi |-> Float(Rat(314159, 100000))]

(* the periodic table the driver loads, with its "elements" list *)
PeriodicTable ==
    [elements |->
        << [symbol |-> "H", name |-> "Hydrogen", atomic_mass |-> Rat(1008, 1000)],
           [symbol |-> "Sn", name |-> "Tin", atomic_mass |-> Rat(11871, 100)] >>]

(* ------------------------------ source lines --------------------------- *)

Id(literal) == Token(IDENTIFIER, literal)
Num(literal) == Token(INT, literal)
Flt(literal) == Token(FLOAT, literal)
(* the source text of a symbol or keyword token *)
Spelling(type) ==
    CASE type = EQ -> "=" [] type = EE -> "==" [] type = NE -> "!=" [] type = LT -> "<"
      [] type = LTE -> "<=" [] type = GT -> ">" [] type = GTE -> ">=" [] type = ADD -> "+"
      [] type = SUB -> "-" [] type = DIV -> "/" [] type = MUL -> "*" [] type = POW -> "^"
      [] type = MOD -> "%" [] type = NOT -> "!" [] type = TILDE -> "~"
      [] type = LPAREN -> "(" [] type = RPAREN -> ")" [] type = LSQUARE -> "["
      [] type = RSQUARE -> "]" [] type = SEMICOLON -> ";" [] type = COMMA -> ","
      [] type = ARROW -> "=>" [] type = IN_ -> "in" [] type = DEFINE_ -> "define"
      [] OTHER -> ""

Sym(type) == Token(type, Spelling(type))
Eof == Token(EOF, "")

RECURSIVE Join(_)
(* statements separated by `;` *)
Join(statements) ==
    IF Len(statements) = 1 THEN Head(statements)
    ELSE Head(statements) \o <<Sym(SEMICOLON)>> \o Join(Tail(statements))

Line(statements) == Join(statements) \o <<Eof>>

Call0(f) == <<Id(f), Sym(LPAREN), Sym(RPAREN)>>
Call2(f, a, b) == <<Id(f), Sym(LPAREN), a, Sym(COMMA), b, Sym(RPAREN)>>
Define0(f) == <<Sym(DEFINE_), Id(f), Sym(LPAREN), Sym(RPAREN), Sym(ARROW)>>
Define2(f, a, b) ==
    <<Sym(DEFINE_), Id(f), Sym(LPAREN), Id(a), Sym(COMMA), Id(b), Sym(RPAREN), Sym(ARROW)>>
Assign(x) == <<Id(x), Sym(EQ)>>

MaxInt == 4
IntLiterals == {"2", "3", "4", "5", "7", "8", "9"}
SmallInts == {l \in IntLiterals : Atoi(l).value <= MaxInt}

(* define add(a, b) => a + b *)
DefineAdd == Define2("add", "a", "b") \o <<Id("a"), Sym(ADD), Id("b")>>

DefineLines ==
    { Line(<<DefineAdd>>),
      Line(<<Define0("f") \o Call0("g")>>),
      Line(<<Define0("g") \o <<Num("1")>> >>),
      Line(<<Define0("setx") \o Assign("x") \o <<Num("9")>> >>),
      Line(<<Define0("bad") \o Assign("x") \o <<Num("9")>>, Call0("nofn")>>),
      Line(<<Define2("h", "a", "b") \o <<Num("7")>> >>) }

(* define add(a, b) => a + b; add(i, j) *)
DefineThenCall(i, j) == Line(<<DefineAdd, Call2("add", Num(i), Num(j))>>)

CallLines ==
    { Line(<<Call2("add", Num(i), Num(j))>>) : i \in SmallInts, j \in SmallInts }
    \cup { Line(<<Call2("h", Num("1"), Id("x"))>>) }
    \cup { Line(<<Call0(f)>>) : f \in {"f", "g", "setx", "bad", "nofn"} }
    \cup { DefineThenCall("2", "3") }

(* the statements the multi-statement lines are made of *)
StatementPool ==
    { Assign("x") \o <<Num("5")>>,
      Assign("y") \o <<Id("x")>>,
      Call0("nofn"),
      <<Id("x"), Sym(ADD), Num("1")>> }

MaxStatements == 2

RECURSIVE StatementLists(_)
StatementLists(n) ==
    IF n = 0 THEN {<<>>}
    ELSE LET shorter == StatementLists(n - 1) IN
         shorter \cup {Append(l, st) : l \in {m \in shorter : Len(m) = n - 1}, st \in StatementPool}

ProgramLines ==
    { Line(l) : l \in StatementLists(MaxStatements) \ {<<>>} }
    \cup { Line(<<Assign("x") \o <<Num("5")>>,
                  Assign("y") \o <<Id("x"), Sym(ADD), Num("3"), Id("meter")>>,
                  <<Id("y"), Sym(IN_), Id("week")>> >>) }

IdentifierLines == { Line(<< <<Id(n)>> >>) : n \in {"q", "xs", "xy", "x", "pi", "H", "tin"} }

In(n, from, to) == <<Num(n), Id(from), Sym(IN_), Id(to)>>

ConversionLines ==
    { Line(<<In("8", "meter", "week")>>), Line(<<In("2", "week", "day")>>),
      Line(<<In("1", "day", "week")>>), Line(<<In("3", "foo", "meter")>>),
      Line(<<In("3", "meter", "foo")>>), Line(<<In("3", "foo", "foo")>>),
      Line(<< <<Num("3"), Sym(IN_), Id("foo")>> >>),
      Line(<< <<Num("3"), Sym(IN_), Num("2")>> >>),
      Line(<< <<Id("y"), Sym(IN_), Id("week")>> >>),
      Line(<< <<Num("1"), Id("foo"), Sym(ADD), Num("1"), Id("meter")>> >>),
      Line(<< <<Num("1"), Id("meter"), Sym(ADD), Num("1"), Id("week")>> >>),
      Line(<< <<Sym(TILDE), Flt("2.5")>> >>),
      Line(<< <<Sym(SUB), Id("x")>> >>),
      Line(<< <<Sym(NOT), Num("0")>> >>),
      Line(<< <<Token(STRING_, "a"), Sym(ADD), Token(STRING_, "b")>> >>),
      Line(<< Call2("print", Num("1"), Num("2")) >>) }

Lines == DefineLines \cup CallLines \cup ProgramLines \cup IdentifierLines \cup ConversionLines

(* the names the lines bind at top level, in the orders a range may take *)
Iterations == { <<"x", "y">>, <<"y", "x">> }

(* ------------------------------ state machine -------------------------- *)

NoParse == [node |-> ErrorNode, err |-> NoErr, pos |-> 0, panic |-> FALSE]
NoResult == [obj |-> NilObject, err |-> NoErr, panic |-> FALSE]

Init ==
    /\ tokens = <<>>
    /\ parsed = NoParse
    /\ Variables = EmptyMap
    /\ Functions = EmptyMap
    /\ result = NoResult
    /\ calls = <<>>
    /\ phase = "idle"

(* the driver hands the tokens of the next line to the parser *)
ReadLine(lines) ==
    /\ phase \in {"idle", "evaluated", "rejected"}
    /\ tokens' \in lines
    /\ parsed' = NoParse
    /\ result' = NoResult
    /\ calls' = <<>>
    /\ phase' = "lexed"
    /\ UNCHANGED <<Variables, Functions>>

ParseLine ==
    /\ phase = "lexed"
    /\ parsed' = Parse(tokens)
    /\ phase' = IF parsed'.panic THEN "panicked"
                ELSE IF parsed'.err # NoErr THEN "rejected" ELSE "parsed"
    /\ UNCHANGED <<tokens, Variables, Functions, result, calls>>

(* the store when a line starts: the four maps of the top-level environment *)
TopStore(iteration) ==
    Store(<<Variables, Functions, Constants, PeriodicTable>>, iteration, <<>>)

TopEnvironment == Environment(1, 2, 3, 4)

EvalLine ==
    /\ phase = "parsed"
    /\ \E iteration \in Iterations :
          LET r == Eval(parsed.node, TopEnvironment, TopStore(iteration)) IN
          /\ result' = [obj |-> r.obj, err |-> r.err, panic |-> r.panic]
          /\ Variables' = MapOf(r.st, TopEnvironment.Variables)
          /\ Functions' = MapOf(r.st, TopEnvironment.Functions)
          /\ calls' = r.st.calls
          /\ phase' = IF r.panic THEN "panicked" ELSE "evaluated"
    /\ UNCHANGED <<tokens, parsed>>

Next == ReadLine(Lines) \/ ParseLine \/ EvalLine

Spec == Init /\ [][Next]_vars

(* --------------------------- unit arithmetic lines --------------------- *)

LeftOperands ==
    { <<Num("3")>>, <<Flt("2.5")>>, <<Num("2"), Id("meter")>>, <<Num("2"), Id("week")>>,
      <<Num("7"), Id("day")>>, <<Num("1"), Id("foo")>> }

RightOperands ==
    { <<Num("2")>>, <<Num("1"), Id("meter")>>, <<Num("1"), Id("day")>>,
      <<Num("1"), Id("week")>>, <<Num("3"), Id("foo")>> }

UnitNames == {"meter", "day", "week", "foo"}

(* `l op r` for every arithmetic and comparison operator, and `u in T` *)
UnitLines ==
    { Line(<<l \o <<Sym(op)>> \o r>>) :
        l \in LeftOperands, r \in RightOperands, op \in InfixOperators \ {IN_, ARROW} }
    \cup { Line(<<In("8", from, to)>>) : from \in UnitNames, to \in UnitNames }
    \cup { Line(<< <<Num("3"), Sym(IN_), Id(to)>> >>) : to \in UnitNames }

UnitNext == ReadLine(UnitLines) \/ ParseLine \/ EvalLine

UnitSpec == Init /\ [][UnitNext]_vars

(* ----------------------------- parser inputs --------------------------- *)

ParseAlphabet ==
    { Num("1"), Id("f"), Sym(LPAREN), Sym(RPAREN), Sym(LSQUARE), Sym(RSQUARE),
      Sym(COMMA), Sym(SEMICOLON), Sym(ADD), Sym(DEFINE_), Sym(ARROW), Sym(EQ) }

MaxTokens == 3

RECURSIVE TokenRuns(_)
(* the token runs of at most n tokens *)
TokenRuns(n) ==
    IF n = 0 THEN {<<>>}
    ELSE LET shorter == TokenRuns(n - 1) IN
         shorter \cup {Append(r, t) : r \in {q \in shorter : Len(q) = n - 1}, t \in ParseAlphabet}

Operands == { Num("1"), Num("2"), Id("x") }

(* a op1 b op2 c *)
TwoOperatorSources ==
    { <<a, Sym(op1), b, Sym(op2), c, Eof>> :
        a \in Operands, b \in Operands, c \in Operands,
        op1 \in InfixOperators, op2 \in InfixOperators }

ParserInputs ==
    { r \o <<Eof>> : r \in TokenRuns(MaxTokens) }
    \cup TwoOperatorSources
    \cup { DefineThenCall("2", "3") }

(* NewParser(tokens) on any of the inputs *)
ParseInit ==
    /\ tokens \in ParserInputs
    /\ parsed = NoParse
    /\ Variables = EmptyMap
    /\ Functions = EmptyMap
    /\ result = NoResult
    /\ calls = <<>>
    /\ phase = "lexed"

ParseNext == ParseLine

ParseSpec == ParseInit /\ [][ParseNext]_vars

(* --------------------------- properties of the parser ------------------ *)

(* Parse has acted on the tokens *)
ParseDone == phase # "lexed" /\ phase # "idle"

HasType(toks, types) == \E i \in 1..Len(toks) : toks[i].Type \in types

(* the first statement opens a function-call list `name(` or an array list  *)
(* `[`, and no bracket of any kind follows it up to the end-of-file         *)
UnterminatedList(toks) ==
    /\ Len(toks) >= 2
    /\ toks[Len(toks)].Type = EOF
    /\ ~HasType(toks, {RPAREN, RSQUARE, DEFINE_})
    /\ \/ /\ toks[1].Type = LSQUARE
          /\ ~HasType(Tail(toks), {LPAREN, LSQUARE})
       \/ /\ Len(toks) >= 3
          /\ toks[1].Type = IDENTIFIER
          /\ toks[2].Type = LPAREN
          /\ ~HasType(Tail(Tail(toks)), {LPAREN, LSQUARE})

(* C5: whenever Parse returns from a token sequence whose function-call or  *)
(* array list is not closed before the end-of-file or `;`, it returns a     *)
(* syntax error and no Program.                                             *)
C5_UnterminatedListIsError ==
    (ParseDone /\ ~parsed.panic /\ UnterminatedList(tokens)) =>
        /\ parsed.err = SyntaxError
        /\ parsed.node = ProgramNode(<<>>)

(* the binding powers of the binary operators *)
BindingPower(op) ==
    CASE op \in {IN_, ARROW} -> 5
      [] op \in {EE, NE, LT, LTE, GT, GTE} -> 10
      [] op = MOD -> 15
      [] op \in {ADD, SUB} -> 20
      [] op \in {MUL, DIV} -> 30
      [] op = POW -> 40

IsOperand(token) == token.Type \in {INT, IDENTIFIER}
OperandNode(token) ==
    IF token.Type = INT THEN IntNode(Atoi(token.Literal).value)
    ELSE IdentifierNode(token.Literal)
(* `=>` in infix position is the operator `in` *)
OperatorOf(token) == IF token.Type = ARROW THEN IN_ ELSE token.Type

(* the tokens are `a op1 b op2 c` and the end-of-file *)
TwoOperators(toks) ==
    /\ Len(toks) = 6
    /\ \A i \in {1, 3, 5} : IsOperand(toks[i])
    /\ \A i \in {2, 4} : toks[i].Type \in InfixOperators
    /\ toks[6].Type = EOF

(* C10: `a op1 b op2 c` parses to a op1 (b op2 c) when op2 binds strictly    *)
(* tighter than op1 and to (a op1 b) op2 c otherwise, `=>` giving the same   *)
(* node as `in`.                                                            *)
C10_PrattGrouping ==
    (ParseDone /\ TwoOperators(tokens)) =>
        LET a == OperandNode(tokens[1])
            b == OperandNode(tokens[3])
            c == OperandNode(tokens[5])
            op1 == OperatorOf(tokens[2])
            op2 == OperatorOf(tokens[4])
        IN  /\ parsed.err = NoErr
            /\ ~parsed.panic
            /\ parsed.node =
                  ProgramNode(<<IF BindingPower(op2) > BindingPower(op1)
                                THEN BinOpNode(a, op1, BinOpNode(b, op2, c))
                                ELSE BinOpNode(BinOpNode(a, op1, b), op2, c)>>)

(* `1 - 2 - 3`, `2 ^ 3 ^ 2`: equal powers have been folded to the left *)
C10_Witness ==
    /\ phase = "parsed"
    /\ TwoOperators(tokens)
    /\ tokens[2].Type = tokens[4].Type
    /\ tokens[2].Type \in {SUB, POW}
    /\ parsed.node.Nodes[1].Left.node = "BIN_OP_NODE"

(* a non-empty token sequence whose last token, and no other, is the        *)
(* end-of-file                                                              *)
EndsWithOneEof(toks) ==
    /\ Len(toks) >= 1
    /\ toks[Len(toks)].Type = EOF
    /\ \A i \in 1..(Len(toks) - 1) : toks[i].Type # EOF

(* C11: on a non-empty token sequence that ends with exactly one            *)
(* end-of-file token, Parse never moves its cursor past that last token     *)
(* (position < number of tokens) and ends by returning a Program or an      *)
(* error, not by a crash; a `(` that is never closed and a `define` right   *)
(* before the end-of-file included.                                         *)
C11_CursorStaysInside ==
    (ParseDone /\ EndsWithOneEof(tokens)) =>
        /\ ~parsed.panic
        /\ parsed.pos < Len(tokens)

(* ------------------------- properties of the evaluator ----------------- *)

(* EvalLine has acted on the parsed line, returning or panicking *)
EvalDone == phase \in {"evaluated", "panicked"} /\ ~parsed.panic
Statements == parsed.node.Nodes
(* the line is the one statement st, whichever it is *)
OneStatement == EvalDone /\ Len(Statements) = 1

RECURSIVE CalledIn(_)
(* the names of the functions an AST calls *)
CalledIn(node) ==
    CASE node.node = "PROGRAM_NODE" ->
            UNION {CalledIn(node.Nodes[i]) : i \in 1..Len(node.Nodes)}
      [] node.node = "BIN_OP_NODE" -> CalledIn(node.Left) \cup CalledIn(node.Right)
      [] node.node = "UNARY_OP_NODE" -> CalledIn(node.Right)
      [] node.node = "UNIT_NODE" -> CalledIn(node.Value)
      [] node.node = "ASSIGN_NODE" -> CalledIn(node.Expression)
      [] node.node = "FUNCTION_CALL_NODE" -> {node.Identifier} \cup CalledIn(node.Parameters)
      [] OTHER -> {}

DefinesFunction(node) ==
    \E i \in 1..Len(node.Nodes) : node.Nodes[i].node = "FUNCTION_DEFENITION_NODE"

(* every function the line calls, directly or from the body of a registered *)
(* function, is a built-in or registered in the top-level functions table   *)
AllCalledRegistered ==
    \A f \in CalledIn(parsed.node)
              \cup UNION {CalledIn(Functions[g].Consequence) : g \in DOMAIN Functions} :
        f \in BuiltinFunctions \cup DOMAIN Functions

(* C1: the callee of a user-function call has the functions table of its    *)
(* caller, so a line that calls only registered functions, at top level or  *)
(* from the bodies of registered functions, never ends in the               *)
(* function-not-defined error.                                              *)
C1_CalleeSeesCallerFunctions ==
    /\ \A i \in 1..Len(calls) : calls[i].callee.Functions = calls[i].caller.Functions
    /\ (EvalDone /\ ~DefinesFunction(parsed.node) /\ AllCalledRegistered)
          => result.err # FunctionCallError

(* a function with parameters (a, b) and the body `a + b` *)
IsSumOfParameters(function) ==
    /\ Len(function.Parameters) = 2
    /\ \A i \in 1..2 : function.Parameters[i].node = "IDENTIFIER_NODE"
    /\ function.Parameters[1] # function.Parameters[2]
    /\ function.Consequence.Nodes =
          <<BinOpNode(function.Parameters[1], ADD, function.Parameters[2])>>

(* the line is one call of a registered sum-of-parameters function with two *)
(* integer literals as arguments                                            *)
SumCall ==
    /\ OneStatement
    /\ Statements[1].node = "FUNCTION_CALL_NODE"
    /\ Statements[1].Identifier \in (DOMAIN Functions) \ BuiltinFunctions
    /\ IsSumOfParameters(Functions[Statements[1].Identifier])
    /\ Len(Statements[1].Parameters.Nodes) = 2
    /\ \A i \in 1..2 : Statements[1].Parameters.Nodes[i].node = "INT_NODE"

(* C2: calling a function with parameters (a, b) and body `a + b` on the    *)
(* integers (x, y) returns Integer x + y without an error, whatever the     *)
(* caller's variables are.                                                  *)
C2_CallBindsByPosition ==
    SumCall =>
        result = [obj |-> Program(<<Integer(Statements[1].Parameters.Nodes[1].Value
                                            + Statements[1].Parameters.Nodes[2].Value)>>),
                  err |-> NoErr, panic |-> FALSE]

(* the line is one identifier that is no constant, no element and no bound  *)
(* variable                                                                 *)
FuzzyLookup ==
    /\ OneStatement
    /\ Statements[1].node = "IDENTIFIER_NODE"
    /\ Statements[1].Identifier \notin DOMAIN Constants
    /\ lookupElements(Statements[1].Identifier, TopStore(<<>>), TopEnvironment.PeriodicTable).err
          # NoErr
    /\ Statements[1].Identifier \notin DOMAIN Variables

(* v is bound and no bound variable is more similar to the name than v *)
MostSimilar(name, v) ==
    /\ v \in DOMAIN Variables
    /\ \A w \in DOMAIN Variables : ~RLess(similarity(name, v), similarity(name, w))

(* C3: an identifier that matches nothing exactly evaluates, once a variable *)
(* is bound, to the value of a most similar bound variable with no error;    *)
(* it fails with the undefined-variable error only when none is bound.       *)
C3_FuzzyNeverFails ==
    FuzzyLookup =>
        IF DOMAIN Variables = {}
        THEN result.err = VarAccessError
        ELSE /\ result.err = NoErr
             /\ ~result.panic
             /\ \E v \in DOMAIN Variables :
                   /\ MostSimilar(Statements[1].Identifier, v)
                   /\ result.obj = Program(<<Variables[v]>>)

(* the statements of the line, evaluated one after the other from the      *)
(* tables the line started with: the result of statement k, when the        *)
(* statements before it have returned without an error                      *)
RECURSIVE StoreBefore(_, _, _)
StoreBefore(statements, k, st) ==
    IF k = 1 THEN st
    ELSE Eval(statements[k - 1], TopEnvironment, StoreBefore(statements, k - 1, st)).st

StatementResult(statements, k, st) ==
    Eval(statements[k], TopEnvironment, StoreBefore(statements, k, st))

(* the first statement that does not return a value, if there is one *)
FirstFailures(statements, st) ==
    { k \in 1..Len(statements) :
        /\ EBad(StatementResult(statements, k, st))
        /\ \A j \in 1..(k - 1) : ~EBad(StatementResult(statements, j, st)) }

ProgramContract(statements, st) ==
    LET failures == FirstFailures(statements, st) IN
    IF failures = {}
    THEN /\ result' = [obj |-> Program([i \in 1..Len(statements) |->
                                           StatementResult(statements, i, st).obj]),
                       err |-> NoErr, panic |-> FALSE]
         /\ \A i \in 1..Len(statements) :
               statements[i].node \in {"ASSIGN_NODE", "FUNCTION_DEFENITION_NODE"}
                  => result'.obj.Objects[i] = Nil
    ELSE LET k == CHOOSE k \in failures : TRUE
             failed == StatementResult(statements, k, st)
         IN  /\ IF failed.panic THEN result'.panic
                ELSE result' = [obj |-> Error, err |-> failed.err, panic |-> FALSE]
             /\ Variables' = MapOf(failed.st, TopEnvironment.Variables)
             /\ Functions' = MapOf(failed.st, TopEnvironment.Functions)

(* C4: a program of n statements is evaluated in order; when all succeed    *)
(* the result is the list of the n values, Nil for an assignment or a       *)
(* definition; when statement k is the first to fail the caller gets the    *)
(* Error sentinel with that error and the tables are as statement k left    *)
(* them, nothing after k having been evaluated.  (A statement that crashes  *)
(* the evaluator returns neither: the run ends there, the tables as the     *)
(* statement left them.)                                                    *)
C4_ProgramStopsAtFirstFailure ==
    [][(phase = "parsed" /\ phase' # "parsed") =>
          \E iteration \in Iterations : ProgramContract(Statements, TopStore(iteration))]_vars

(* `nofn(); x = 5` on an environment without x: the call failed and the     *)
(* assignment after it was not made                                         *)
C4_Witness ==
    /\ phase = "evaluated"
    /\ Len(Statements) = 2
    /\ Statements[1].node = "FUNCTION_CALL_NODE"
    /\ Statements[2].node = "ASSIGN_NODE"
    /\ result = [obj |-> Error, err |-> FunctionCallError, panic |-> FALSE]
    /\ Statements[2].Identifier \notin DOMAIN Variables

(* the tokens are `define add(a, b) => a + b; add(2, 3)` *)
IsDefineThenCall(toks) == toks = DefineThenCall("2", "3")

(* C6 as stated: the line `define add(a, b) => a + b; add(2, 3)`            *)
(* evaluates to the two values [Nil, Integer(5)].                           *)
C6_DefineThenCallGivesTwoValues ==
    (EvalDone /\ tokens = DefineThenCall("2", "3")) =>
        result = [obj |-> Program(<<Nil, Integer(5)>>), err |-> NoErr, panic |-> FALSE]

(* C6 amended: the body of a definition runs to the end of the input, so    *)
(* `define add(a, b) => a + b; add(2, 3)` parses to the one statement that  *)
(* defines add with the two-statement body `a + b; add(2, 3)`, and it       *)
(* evaluates to the one value [Nil], registering that definition.           *)
C6_DefineSwallowsTheCall ==
    (phase \in {"parsed", "evaluated", "panicked"} /\ IsDefineThenCall(tokens)) =>
        /\ ~parsed.panic
        /\ Len(Statements) = 1
        /\ Statements[1].node = "FUNCTION_DEFENITION_NODE"
        /\ Statements[1].Identifier = "add"
        /\ Len(Statements[1].Consequence.Nodes) = 2
        /\ Statements[1].Consequence.Nodes[1] =
              BinOpNode(IdentifierNode("a"), ADD, IdentifierNode("b"))
        /\ Statements[1].Consequence.Nodes[2].node = "FUNCTION_CALL_NODE"
        /\ phase # "panicked"
        /\ phase = "evaluated" =>
              /\ result = [obj |-> Program(<<Nil>>), err |-> NoErr, panic |-> FALSE]
              /\ Functions["add"] = Statements[1]

C6_Witness ==
    /\ phase = "evaluated"
    /\ tokens = DefineThenCall("2", "3")
    /\ Len(result.obj.Objects) = 1

(* an operand that is a numeric literal, with or without a unit *)
IsLiteral(node) == node.node \in {"INT_NODE", "FLOAT_NODE"}
IsUnitLiteral(node) == node.node = "UNIT_NODE" /\ IsLiteral(node.Value)
LiteralValue(node) == IF node.node = "INT_NODE" THEN RatInt(node.Value) ELSE node.Value

(* the line is `u in T` with u a unit literal, or an operator other than    *)
(* `in` between two unit literals                                           *)
ConversionLine ==
    /\ OneStatement
    /\ Statements[1].node = "BIN_OP_NODE"
    /\ IsUnitLiteral(Statements[1].Left)
    /\ IF Statements[1].Operation = IN_
       THEN Statements[1].Right.node = "IDENTIFIER_NODE"
       ELSE IsUnitLiteral(Statements[1].Right)

FromUnit == Statements[1].Left.Unit
ToUnit ==
    IF Statements[1].Operation = IN_ THEN Statements[1].Right.Identifier
    ELSE Statements[1].Right.Unit

(* the registry does not know one of the units, or knows both but has no    *)
(* conversion from one to the other                                         *)
CannotConvert(from, to) ==
    /\ from # to
    /\ \/ ~unitsFind(from)
       \/ ~unitsFind(to)
       \/ UnitQuantity(from) # UnitQuantity(to)

(* C7: a conversion that cannot be performed, in `u in T` or in arithmetic  *)
(* on two unit values, ends the evaluation with the ConversionError as the  *)
(* returned error, not with a crash or a value.                             *)
C7_FailedConversionIsError ==
    (ConversionLine /\ CannotConvert(FromUnit, ToUnit)) =>
        result = [obj |-> Error, err |-> ConversionError, panic |-> FALSE]

(* the line is an arithmetic or comparison operator between two literals *)
InfixLine ==
    /\ OneStatement
    /\ Statements[1].node = "BIN_OP_NODE"
    /\ Statements[1].Operation # IN_
    /\ \A operand \in {Statements[1].Left, Statements[1].Right} :
          IsLiteral(operand) \/ IsUnitLiteral(operand)

(* the magnitude of the left unit literal in the unit of the right one *)
LeftInRightUnit(left, right) ==
    IF left.Unit = right.Unit THEN LiteralValue(left.Value)
    ELSE Inspect(formatFloat(RDiv(RMul(LiteralValue(left.Value), RatInt(DaysIn(left.Unit))),
                                  RatInt(DaysIn(right.Unit)))))

(* C8: the result of a numeric infix operation carries the right operand's  *)
(* unit when both operands have one (the left magnitude converted into it   *)
(* first), the unit of the one operand that has one whichever side it is    *)
(* on, and no unit when neither has.                                        *)
C8_UnitTagOfInfix ==
    (InfixLine /\ phase = "evaluated" /\ result.err = NoErr) =>
        LET left == Statements[1].Left
            right == Statements[1].Right
            out == result.obj.Objects[1]
        IN  IF IsUnitLiteral(left) /\ IsUnitLiteral(right)
            THEN /\ out.type = UNIT_OBJ
                 /\ out.Unit = right.Unit
                 /\ Statements[1].Operation = ADD =>
                       out.Value = Inspect(formatFloat(RAdd(LeftInRightUnit(left, right),
                                                            LiteralValue(right.Value))))
            ELSE IF IsUnitLiteral(left) THEN out.type = UNIT_OBJ /\ out.Unit = left.Unit
            ELSE IF IsUnitLiteral(right) THEN out.type = UNIT_OBJ /\ out.Unit = right.Unit
            ELSE out.type \in {INT_OBJ, FLOAT_OBJ}

(* `2 week + 1 day` gave 15 day: both operands carry a unit, and differ *)
C8_Witness ==
    /\ InfixLine
    /\ phase = "evaluated"
    /\ result.err = NoErr
    /\ IsUnitLiteral(Statements[1].Left)
    /\ IsUnitLiteral(Statements[1].Right)
    /\ Statements[1].Left.Unit = "week"
    /\ Statements[1].Operation = ADD
    /\ result.obj.Objects[1] = Unit(RatInt(15), "day")

ParameterNames(function) ==
    { function.Parameters[i].Identifier : i \in 1..Len(function.Parameters) }

(* C9: a user-function invocation has variables of its own: when its body   *)
(* starts they are parameters of the function and nothing else, and when    *)
(* the call is over the caller's variables are what they were at the call.  *)
C9_CallLeavesCallerVariables ==
    \A i \in 1..Len(calls) :
        /\ calls[i].returnVariables = calls[i].callerVariables
        /\ calls[i].callee.Variables # calls[i].caller.Variables
        /\ DOMAIN calls[i].calleeVariables
              \subseteq ParameterNames(calls[i].callerFunctions[calls[i].fn])

(* a body assigned to a name the caller has bound, and the call returned *)
C9_Witness ==
    /\ phase = "evaluated"
    /\ \E i \in 1..Len(calls) :
          \E x \in DOMAIN calls[i].callerVariables \cap DOMAIN calls[i].calleeEndVariables :
              /\ calls[i].calleeEndVariables[x] # calls[i].callerVariables[x]
              /\ Variables[x] = calls[i].callerVariables[x]

=============================================================================
